---- MODULE Spec2Model ----
(***************************************************************************)
(* HLA allele parsing / derivation (igen.core.domain.hla_allele) and the   *)
(* haplotype container (igen.core.domain.hla_haplotype).                   *)
(*                                                                         *)
(* A Python str is a sequence of one-character strings; Optional[str] is   *)
(* <<>> for None and <<s>> for the string s.  A locus object (HlaLocus) is *)
(* named by the TLA+ string of its enum member ("DRB3"); its text is the   *)
(* character sequence of the enum value.                                   *)
(***************************************************************************)
EXTENDS Integers, Sequences, FiniteSets, TLC

VARIABLES raw, recv, call, ret, held, heap, hcall

vars == <<raw, recv, call, ret, held, heap, hcall>>

(***************************************************************************)
(* Bounds of the model.                                                    *)
(***************************************************************************)
\* most colon-separated fields of a generated specificity
MaxFields == 3
\* largest argument given to with_display_field_count / as_resolution
MaxArg == 3

(***************************************************************************)
(* Characters and the str methods the code calls.                          *)
(***************************************************************************)
UpperLetters == <<"A","B","C","D","E","F","G","H","I","J","K","L","M",
                  "N","O","P","Q","R","S","T","U","V","W","X","Y","Z">>

LowerLetters == <<"a","b","c","d","e","f","g","h","i","j","k","l","m",
                  "n","o","p","q","r","s","t","u","v","w","x","y","z">>

DigitChars == {"0","1","2","3","4","5","6","7","8","9"}

LowerSet == {LowerLetters[i] : i \in 1..Len(LowerLetters)}

UpperSet == {UpperLetters[i] : i \in 1..Len(UpperLetters)}

\* lower-case letter to its upper-case letter
UpperMap ==
    [c \in LowerSet |->
        UpperLetters[CHOOSE i \in 1..Len(LowerLetters) : LowerLetters[i] = c]]

IsLowerChar(c) == c \in LowerSet

IsAlphaChar(c) == c \in LowerSet \/ c \in UpperSet

IsDigitChar(c) == c \in DigitChars

IsSpaceChar(c) == c = " "

UpperChar(c) == IF IsLowerChar(c) THEN UpperMap[c] ELSE c

\* str.upper()
Upper(s) == [i \in 1..Len(s) |-> UpperChar(s[i])]

SetMin(S) == CHOOSE x \in S : \A y \in S : x <= y

SetMax(S) == CHOOSE x \in S : \A y \in S : x >= y

\* str.strip()
Strip(s) ==
    LET keep == {i \in 1..Len(s) : ~IsSpaceChar(s[i])}
    IN  IF keep = {} THEN <<>> ELSE SubSeq(s, SetMin(keep), SetMax(keep))

\* c in s
HasChar(s, c) == \E i \in 1..Len(s) : s[i] = c

\* s.count(c)
CountChar(s, c) == Cardinality({i \in 1..Len(s) : s[i] = c})

\* s.split(c, 1) for a string that holds c: <<before the first c, after it>>
SplitFirst(s, c) ==
    LET i == SetMin({k \in 1..Len(s) : s[k] = c})
    IN  <<SubSeq(s, 1, i - 1), SubSeq(s, i + 1, Len(s))>>

\* s.split(c): always at least one part
RECURSIVE Split(_, _)
Split(s, c) ==
    IF ~HasChar(s, c) THEN <<s>>
    ELSE LET p == SplitFirst(s, c) IN <<p[1]>> \o Split(p[2], c)

\* c.join(parts)
RECURSIVE Join(_, _)
Join(parts, c) ==
    IF Len(parts) = 0 THEN <<>>
    ELSE IF Len(parts) = 1 THEN parts[1]
    ELSE parts[1] \o <<c>> \o Join(Tail(parts), c)

\* s.isalpha(): non-empty and letters only
IsAlpha(s) == Len(s) >= 1 /\ \A i \in 1..Len(s) : IsAlphaChar(s[i])

\* s.startswith(p)
StartsWith(s, p) == Len(p) <= Len(s) /\ SubSeq(s, 1, Len(p)) = p

\* seq[:k], negative k counting from the end as Python slices do
SliceTo(seq, k) ==
    IF k >= 0
    THEN SubSeq(seq, 1, IF k < Len(seq) THEN k ELSE Len(seq))
    ELSE SubSeq(seq, 1, IF Len(seq) + k > 0 THEN Len(seq) + k ELSE 0)

\* is_blank of igen.shared.string_utils on an Optional[str]
is_blank(opt) == opt = <<>> \/ Strip(opt[1]) = <<>>

(***************************************************************************)
(* Locus registry.                                                         *)
(***************************************************************************)
\* HlaLocus._registry, in registration order: enum member and enum value
Registry ==
    << [name |-> "A",      value |-> <<"A">>],
       [name |-> "B",      value |-> <<"B">>],
       [name |-> "C",      value |-> <<"C">>],
       [name |-> "DRB1",   value |-> <<"D","R","B","1">>],
       [name |-> "DRB3",   value |-> <<"D","R","B","3">>],
       [name |-> "DRB4",   value |-> <<"D","R","B","4">>],
       [name |-> "DRB5",   value |-> <<"D","R","B","5">>],
       [name |-> "DRB345", value |-> <<"D","R","B","3","4","5">>],
       [name |-> "DQB1",   value |-> <<"D","Q","B","1">>],
       [name |-> "DQA1",   value |-> <<"D","Q","A","1">>],
       [name |-> "DPB1",   value |-> <<"D","P","B","1">>],
       [name |-> "DPA1",   value |-> <<"D","P","A","1">>] >>

Loci == {Registry[i].name : i \in 1..Len(Registry)}

\* locus.value.value
LocusValue(l) == Registry[CHOOSE i \in 1..Len(Registry) : Registry[i].name = l].value

\* HlaLocus.from_value: the first registered locus with that value, <<>> for None
from_value(text) ==
    LET hits == {i \in 1..Len(Registry) : Registry[i].value = text}
    IN  IF hits = {} THEN <<>> ELSE <<Registry[SetMin(hits)].name>>

\* HlaLocus.is_drb345
is_drb345(l) == l \in {"DRB345", "DRB3", "DRB4", "DRB5"}

\* _LOCUS_ALTERNATIVE_MAP.get
LOCUS_ALTERNATIVE_MAP_get(text) ==
    IF text = <<"B","3">> THEN <<"DRB3">>
    ELSE IF text = <<"B","4">> THEN <<"DRB4">>
    ELSE IF text = <<"B","5">> THEN <<"DRB5">>
    ELSE <<>>

(***************************************************************************)
(* Specificity grammar.                                                    *)
(***************************************************************************)
NEGATIVE_SPECIFICITIES ==
    { <<"N","E","G","A","T","I","V","O">>, <<"N","E","G","A","T","I","V","E">> }

MISSING_SPECIFICITIES ==
    { <<"A","U","S","E","N","T","E">>, <<"M","I","S","S","I","N","G">> }

SPECIFICITY_EXCEPTIONS ==
    NEGATIVE_SPECIFICITIES \cup MISSING_SPECIFICITIES \cup { <<"?">> }

\* \d{2,}
IsDigits2(f) == Len(f) >= 2 /\ \A i \in 1..Len(f) : IsDigitChar(f[i])

\* [A-Z]{2,} under re.IGNORECASE
IsLetters2(f) == Len(f) >= 2 /\ \A i \in 1..Len(f) : IsAlphaChar(f[i])

\* \d{2,}[A-Z]? under re.IGNORECASE
IsDigits2OptLetter(f) ==
    \/ IsDigits2(f)
    \/ Len(f) >= 3 /\ IsDigits2(SubSeq(f, 1, Len(f) - 1)) /\ IsAlphaChar(f[Len(f)])

\* _SPECIFICITY_REGEX.fullmatch: ^\d{2,}((:[A-Z]{2,})|(:\d{2,}[A-Z]?)*)$ read on
\* the colon-separated parts: a leading digit group, then either exactly one
\* letter group or any number of digit groups with an optional trailing letter
SPECIFICITY_REGEX_fullmatch(s) ==
    LET parts == Split(s, ":")
    IN  /\ IsDigits2(parts[1])
        /\ \/ Len(parts) = 2 /\ IsLetters2(parts[2])
           \/ \A i \in 2..Len(parts) : IsDigits2OptLetter(parts[i])

is_valid_specificity(specificity) ==
    \/ Upper(specificity) \in SPECIFICITY_EXCEPTIONS
    \/ SPECIFICITY_REGEX_fullmatch(specificity)

(***************************************************************************)
(* Results of calls: a returned allele, boolean or string, or an exception.*)
(***************************************************************************)
\* the value of a variable that holds no allele
NoAllele ==
    [locus |-> "None", specificity |-> <<>>, field_count |-> 0, mac_code |-> <<>>,
     display_field_count |-> 0, suffix |-> <<>>]

RetAllele(a) == [ok |-> TRUE, err |-> "none", val |-> a, bool |-> FALSE, text |-> <<>>]

RetBool(b) == [ok |-> TRUE, err |-> "none", val |-> NoAllele, bool |-> b, text |-> <<>>]

RetText(t) == [ok |-> TRUE, err |-> "none", val |-> NoAllele, bool |-> FALSE, text |-> t]

Raise(e) == [ok |-> FALSE, err |-> e, val |-> NoAllele, bool |-> FALSE, text |-> <<>>]

(***************************************************************************)
(* Parsing.                                                                *)
(***************************************************************************)
\* _parse_locus: the locus, or ValueError("Unknown locus")
parse_locus(locus) ==
    LET norm_locus == Upper(locus)
        parsed == from_value(norm_locus)
        alternative == LOCUS_ALTERNATIVE_MAP_get(norm_locus)
    IN  IF parsed # <<>> THEN [ok |-> TRUE, locus |-> parsed[1]]
        ELSE IF alternative # <<>> THEN [ok |-> TRUE, locus |-> alternative[1]]
        ELSE [ok |-> FALSE, locus |-> "None"]

\* _extract_parts: (locus token, specificity), or ValueError("must contain '*'")
extract_parts(s) ==
    LET normalized == Upper(Strip(s))
    IN  IF normalized \in NEGATIVE_SPECIFICITIES \/ normalized \in MISSING_SPECIFICITIES
        THEN [ok |-> TRUE, locus |-> <<"D","R","B","3","4","5">>, specificity |-> normalized]
        ELSE IF ~HasChar(s, "*")
        THEN [ok |-> FALSE, locus |-> <<>>, specificity |-> <<>>]
        ELSE [ok |-> TRUE, locus |-> SplitFirst(s, "*")[1],
              specificity |-> SplitFirst(s, "*")[2]]

get_field_count(specificity) == CountChar(specificity, ":") + 1

get_mac_code(specificity) ==
    LET parts == Split(specificity, ":")
        last_field == parts[Len(parts)]
    IN  IF Len(last_field) >= 2 /\ IsAlpha(last_field) THEN <<Upper(last_field)>> ELSE <<>>

get_suffix(specificity) ==
    LET parts == Split(specificity, ":")
        last_field == parts[Len(parts)]
    IN  IF /\ Len(last_field) >= 3
           /\ ~IsAlpha(last_field)
           /\ IsAlphaChar(last_field[Len(last_field)])
        THEN << <<UpperChar(last_field[Len(last_field)])>> >>
        ELSE <<>>

\* the dataclass constructor followed by __post_init__
HlaAllele(locus, specificity, field_count, mac_code, display_field_count, suffix) ==
    IF ~is_valid_specificity(specificity)
    THEN Raise("invalid_specificity")
    ELSE RetAllele([locus |-> locus, specificity |-> specificity,
                    field_count |-> field_count, mac_code |-> mac_code,
                    display_field_count |-> display_field_count, suffix |-> suffix])

\* display_field_count: int = 2
DefaultDisplayFieldCount == 2

from_string(s) ==
    LET parts == extract_parts(s)
        locus == parse_locus(parts.locus)
    IN  IF ~parts.ok THEN Raise("no_star")
        ELSE IF ~locus.ok THEN Raise("unknown_locus")
        ELSE HlaAllele(locus.locus, parts.specificity,
                       get_field_count(parts.specificity),
                       get_mac_code(parts.specificity),
                       DefaultDisplayFieldCount,
                       get_suffix(parts.specificity))

\* is_valid_allele without the locus lookup
is_valid_allele_no_locus(s) ==
    LET parts == extract_parts(s)
    IN  IF ~parts.ok THEN RetBool(FALSE)
        ELSE RetBool(is_valid_specificity(parts.specificity))

is_valid_allele(s) ==
    LET parts == extract_parts(s)
    IN  IF ~parts.ok THEN RetBool(FALSE)
        ELSE IF ~parse_locus(parts.locus).ok THEN RetBool(FALSE)
        ELSE RetBool(is_valid_specificity(parts.specificity))

(***************************************************************************)
(* Derived views of an allele.                                             *)
(***************************************************************************)
has_mac_code(a) == ~is_blank(a.mac_code)

has_suffix(a) == ~is_blank(a.suffix)

\* __str__
allele_str(a) == LocusValue(a.locus) \o <<"*">> \o a.specificity

allele_clone(a) ==
    HlaAllele(a.locus, a.specificity, a.field_count, a.mac_code,
              a.display_field_count, a.suffix)

\* _reduce_specificity; reduced + self.suffix is a TypeError when suffix is None
reduce_specificity(a, specificity, force_truncate, keep_suffix) ==
    IF ~force_truncate /\ has_suffix(a) THEN RetText(specificity)
    ELSE LET parts == Split(specificity, ":")
             reduced == Join(SliceTo(parts, a.display_field_count), ":")
         IN  IF keep_suffix
             THEN IF a.suffix = <<>> THEN Raise("type_error")
                  ELSE RetText(reduced \o a.suffix[1])
             ELSE RetText(reduced)

\* display: _reduce_specificity applied to the canonical string
display(a, force_truncate, keep_suffix) ==
    reduce_specificity(a, allele_str(a), force_truncate, keep_suffix)

\* contains with the prefix test turned round
contains_reversed(a, other) ==
    LET candidate == from_string(other)
    IN  IF ~candidate.ok THEN Raise(candidate.err)
        ELSE IF has_mac_code(a) \/ has_mac_code(candidate.val) THEN RetBool(FALSE)
        ELSE RetBool(StartsWith(allele_str(candidate.val), allele_str(a)))

contains(a, other) ==
    LET candidate == from_string(other)
    IN  IF ~candidate.ok THEN Raise(candidate.err)
        ELSE IF has_mac_code(a) \/ has_mac_code(candidate.val) THEN RetBool(FALSE)
        ELSE RetBool(StartsWith(allele_str(a), allele_str(candidate.val)))

with_display_field_count(a, value) ==
    HlaAllele(a.locus, a.specificity, a.field_count, a.mac_code, value, a.suffix)

without_suffix(a) ==
    IF ~has_suffix(a) THEN allele_clone(a)
    ELSE HlaAllele(a.locus, SliceTo(a.specificity, -1), a.field_count, a.mac_code,
                   a.display_field_count, <<>>)

as_resolution(a, n_field, keep_suffix) ==
    IF n_field < 1 THEN Raise("n_field")
    ELSE IF n_field > a.field_count THEN allele_clone(a)
    ELSE LET specificity == reduce_specificity(a, a.specificity, TRUE, FALSE).text
             suffix == IF keep_suffix /\ has_suffix(a) THEN a.suffix ELSE <<>>
         IN  HlaAllele(a.locus, specificity, n_field, get_mac_code(specificity),
                       IF a.display_field_count < n_field
                       THEN a.display_field_count ELSE n_field,
                       suffix)

(***************************************************************************)
(* Inputs of the allele operations.                                        *)
(***************************************************************************)
\* fields a generated specificity is built from
FieldCands ==
    { <<>>, <<"0">>, <<"0","1">>, <<"0","1","N">>, <<"0","1","n">>, <<"A","B">> }

\* specificities that are not colon-joined fields
TokenSpecs ==
    SPECIFICITY_EXCEPTIONS \cup
    { <<"n","e","g","a","t","i","v","o">>, <<" ">>, <<"0","1"," ">>, <<"0","1","*","0","1">> }

SpecCands ==
    { Join(fs, ":") : fs \in UNION { [1..k -> FieldCands] : k \in 1..MaxFields } }
    \cup TokenSpecs

\* locus tokens: canonical, padded, unknown
LocusTokens == { <<"A">>, <<" ","A">>, <<"X">> }

\* bare markers, inputs without a '*', lower-case locus and MAC code, aliases
BareInputs ==
    NEGATIVE_SPECIFICITIES \cup MISSING_SPECIFICITIES \cup
    { <<" ","n","e","g","a","t","i","v","o"," ">>, <<"a","u","s","e","n","t","e">>,
      <<"M","i","s","s","i","n","g"," ">>, <<"?">>, <<>>, <<"A","0","1">>,
      <<"a","*","0","1",":","a","b">>, <<"d","r","b","3","4","5","*","0","1">>,
      <<"B","3","*","0","1">>, <<"b","4","*","0","1",":","0","1","N">>,
      <<"B","6","*","0","1">> }

RawInputs ==
    { l \o <<"*">> \o s : l \in LocusTokens, s \in SpecCands } \cup BareInputs

\* arguments of contains
OtherInputs ==
    { <<"A","*","0","1">>, <<"A","*","0","1",":","0","1">>,
      <<"A","*","0","1",":","A","B">>, <<"B","3","*","0","1">>, <<"A","*","0">>,
      <<"N","E","G","A","T","I","V","O">> }

IntArgs == 0..MaxArg

(***************************************************************************)
(* The allele operations as steps of a caller holding one allele.          *)
(***************************************************************************)
NoCall == [op |-> "none", n |-> 0, force |-> FALSE, keep |-> FALSE, other |-> <<>>]

Call(op, n, force, keep) ==
    [op |-> op, n |-> n, force |-> force, keep |-> keep, other |-> <<>>]

\* the caller's variable after a call that returns an allele
Kept(r, old) == IF r.ok THEN r.val ELSE old

\* HlaAllele.from_string(raw)
FromString ==
    /\ recv' = NoAllele
    /\ call' = Call("from_string", 0, FALSE, FALSE)
    /\ ret' = from_string(raw)
    /\ held' = Kept(ret', NoAllele)
    /\ UNCHANGED <<raw, heap, hcall>>

\* HlaAllele.is_valid_allele(raw)
IsValidAllele ==
    /\ recv' = NoAllele
    /\ call' = Call("is_valid_allele", 0, FALSE, FALSE)
    /\ ret' = is_valid_allele(raw)
    /\ held' = NoAllele
    /\ UNCHANGED <<raw, heap, hcall>>

Clone ==
    /\ held # NoAllele
    /\ raw' = raw
    /\ recv' = held
    /\ call' = Call("clone", 0, FALSE, FALSE)
    /\ ret' = allele_clone(held)
    /\ held' = Kept(ret', held)
    /\ UNCHANGED <<heap, hcall>>

WithDisplayFieldCount(value) ==
    /\ held # NoAllele
    /\ raw' = raw
    /\ recv' = held
    /\ call' = Call("with_display_field_count", value, FALSE, FALSE)
    /\ ret' = with_display_field_count(held, value)
    /\ held' = Kept(ret', held)
    /\ UNCHANGED <<heap, hcall>>

WithoutSuffix ==
    /\ held # NoAllele
    /\ raw' = raw
    /\ recv' = held
    /\ call' = Call("without_suffix", 0, FALSE, FALSE)
    /\ ret' = without_suffix(held)
    /\ held' = Kept(ret', held)
    /\ UNCHANGED <<heap, hcall>>

AsResolution(n_field, keep_suffix) ==
    /\ held # NoAllele
    /\ raw' = raw
    /\ recv' = held
    /\ call' = Call("as_resolution", n_field, FALSE, keep_suffix)
    /\ ret' = as_resolution(held, n_field, keep_suffix)
    /\ held' = Kept(ret', held)
    /\ UNCHANGED <<heap, hcall>>

Contains(other) ==
    /\ held # NoAllele
    /\ raw' = raw
    /\ recv' = held
    /\ call' = [Call("contains", 0, FALSE, FALSE) EXCEPT !.other = other]
    /\ ret' = contains(held, other)
    /\ held' = held
    /\ UNCHANGED <<heap, hcall>>

Display(force_truncate, keep_suffix) ==
    /\ held # NoAllele
    /\ raw' = raw
    /\ recv' = held
    /\ call' = Call("display", 0, force_truncate, keep_suffix)
    /\ ret' = display(held, force_truncate, keep_suffix)
    /\ held' = held
    /\ UNCHANGED <<heap, hcall>>

(***************************************************************************)
(* Haplotypes.  An object's _allele_map is a sequence of entries in        *)
(* insertion order, as a dict keeps them; heap is the sequence of the      *)
(* haplotype objects alive, a reference is an index into it.               *)
(***************************************************************************)
\* _coerce_locus on a string: the locus, or ValueError("Unknown locus")
coerce_locus(locus) ==
    LET coerced == from_value(locus)
    IN  IF coerced = <<>> THEN [ok |-> FALSE, locus |-> "None"]
        ELSE [ok |-> TRUE, locus |-> coerced[1]]

\* _normalize_locus that keeps each family member as its own key
normalize_locus_identity(locus) == locus

\* _normalize_locus
normalize_locus(locus) == IF is_drb345(locus) THEN "DRB345" ELSE locus

\* mapping.get(key): <<>> for None
DictGet(mapping, key) ==
    LET hits == {i \in 1..Len(mapping) : mapping[i].key = key}
    IN  IF hits = {} THEN <<>> ELSE <<mapping[SetMin(hits)].val>>

\* mapping[key] = val: an existing key keeps its place, a new key goes last
DictSet(mapping, key, val) ==
    IF \E i \in 1..Len(mapping) : mapping[i].key = key
    THEN [i \in 1..Len(mapping) |->
            IF mapping[i].key = key THEN [key |-> key, val |-> val] ELSE mapping[i]]
    ELSE Append(mapping, [key |-> key, val |-> val])

\* mapping.values()
DictValues(mapping) == [i \in 1..Len(mapping) |-> mapping[i].val]

\* HlaHaplotype.__init__: the _allele_map built from an iterable of alleles
RECURSIVE HlaHaplotype_init_from(_, _)
HlaHaplotype_init_from(mapping, alleles) ==
    IF Len(alleles) = 0 THEN mapping
    ELSE HlaHaplotype_init_from(
             DictSet(mapping, normalize_locus(alleles[1].locus), alleles[1]),
             Tail(alleles))

HlaHaplotype_init(alleles) == HlaHaplotype_init_from(<<>>, alleles)

\* a newly constructed object joins the heap
New(h, alleles) ==
    [ok |-> TRUE, heap |-> Append(h, HlaHaplotype_init(alleles)), ref |-> Len(h) + 1]

\* the alleles property
hap_alleles(h, self) == DictValues(h[self])

hap_clone(h, self) == New(h, hap_alleles(h, self))

\* get that looks up the family slot and ignores exact
hap_get_ignoring_exact(h, self, locus, exact) ==
    LET resolved == coerce_locus(locus)
        candidate == DictGet(h[self], "DRB345")
    IN  IF ~resolved.ok THEN [ok |-> FALSE, val |-> <<>>]
        ELSE IF is_drb345(resolved.locus)
        THEN [ok |-> TRUE, val |-> candidate]
        ELSE [ok |-> TRUE, val |-> DictGet(h[self], resolved.locus)]

\* get: [ok, val], val <<>> for None
hap_get(h, self, locus, exact) ==
    LET resolved == coerce_locus(locus)
        candidate == DictGet(h[self], "DRB345")
    IN  IF ~resolved.ok THEN [ok |-> FALSE, val |-> <<>>]
        ELSE IF is_drb345(resolved.locus)
        THEN IF candidate = <<>> THEN [ok |-> TRUE, val |-> <<>>]
             ELSE IF exact /\ candidate[1].locus # resolved.locus
             THEN [ok |-> TRUE, val |-> <<>>]
             ELSE [ok |-> TRUE, val |-> candidate]
        ELSE [ok |-> TRUE, val |-> DictGet(h[self], resolved.locus)]

\* has
hap_has(h, self, locus, exact) ==
    LET got == hap_get(h, self, locus, exact)
    IN  [ok |-> got.ok, val |-> got.ok /\ got.val # <<>>]

\* set that stores into the receiver's own mapping and returns the receiver
hap_set_in_place(h, self, locus, allele) ==
    LET coerced == coerce_locus(locus)
        norm_locus == normalize_locus(coerced.locus)
    IN  IF ~coerced.ok THEN [ok |-> FALSE, heap |-> h, ref |-> 0]
        ELSE IF norm_locus # normalize_locus(allele.locus)
        THEN [ok |-> TRUE, heap |-> h, ref |-> self]
        ELSE [ok |-> TRUE,
              heap |-> [h EXCEPT ![self] = DictSet(h[self], norm_locus, allele)],
              ref |-> self]

\* set that stores the allele whatever its locus
hap_set_unguarded(h, self, locus, allele) ==
    LET coerced == coerce_locus(locus)
        norm_locus == normalize_locus(coerced.locus)
    IN  IF ~coerced.ok THEN [ok |-> FALSE, heap |-> h, ref |-> 0]
        ELSE New(h, DictValues(DictSet(h[self], norm_locus, allele)))

\* set: the receiver itself on a locus mismatch, else a new object
hap_set(h, self, locus, allele) ==
    LET coerced == coerce_locus(locus)
        norm_locus == normalize_locus(coerced.locus)
    IN  IF ~coerced.ok THEN [ok |-> FALSE, heap |-> h, ref |-> 0]
        ELSE IF norm_locus # normalize_locus(allele.locus)
        THEN [ok |-> TRUE, heap |-> h, ref |-> self]
        ELSE New(h, DictValues(DictSet(h[self], norm_locus, allele)))

\* swap that puts each side's own allele back instead of the other side's
hap_swap_no_exchange(h, self, haplotype, locus) ==
    LET c1 == hap_clone(h, self)
        c2 == hap_clone(c1.heap, haplotype)
        allele1 == hap_get(c2.heap, c1.ref, locus, FALSE)
        allele2 == hap_get(c2.heap, c2.ref, locus, FALSE)
        s1 == hap_set(c2.heap, c1.ref, locus, allele1.val[1])
        s2 == hap_set(s1.heap, c2.ref, locus, allele2.val[1])
    IN  IF ~allele1.ok
        THEN [ok |-> FALSE, heap |-> h, first |-> 0, second |-> 0]
        ELSE IF allele1.val = <<>> \/ allele2.val = <<>>
        THEN [ok |-> TRUE, heap |-> c2.heap, first |-> c1.ref, second |-> c2.ref]
        ELSE [ok |-> TRUE, heap |-> s2.heap, first |-> s1.ref, second |-> s2.ref]

\* swap: [ok, heap, first, second]
hap_swap(h, self, haplotype, locus) ==
    LET c1 == hap_clone(h, self)
        c2 == hap_clone(c1.heap, haplotype)
        allele1 == hap_get(c2.heap, c1.ref, locus, FALSE)
        allele2 == hap_get(c2.heap, c2.ref, locus, FALSE)
        s1 == hap_set(c2.heap, c1.ref, locus, allele2.val[1])
        s2 == hap_set(s1.heap, c2.ref, locus, allele1.val[1])
    IN  IF ~allele1.ok
        THEN [ok |-> FALSE, heap |-> h, first |-> 0, second |-> 0]
        ELSE IF allele1.val = <<>> \/ allele2.val = <<>>
        THEN [ok |-> TRUE, heap |-> c2.heap, first |-> c1.ref, second |-> c2.ref]
        ELSE [ok |-> TRUE, heap |-> s2.heap, first |-> s1.ref, second |-> s2.ref]

\* swap_all: swap folded over loci, starting from the pair (self, haplotype)
RECURSIVE hap_swap_all(_, _, _, _)
hap_swap_all(h, self, haplotype, loci) ==
    IF Len(loci) = 0
    THEN [ok |-> TRUE, heap |-> h, first |-> self, second |-> haplotype]
    ELSE LET pair == hap_swap(h, self, haplotype, loci[1])
         IN  IF ~pair.ok THEN [ok |-> FALSE, heap |-> h, first |-> 0, second |-> 0]
             ELSE hap_swap_all(pair.heap, pair.first, pair.second, Tail(loci))

\* concat in which the receiver's alleles come last and so win
hap_concat_receiver_wins(h, self, haplotype) ==
    New(h, hap_alleles(h, haplotype) \o hap_alleles(h, self))

hap_concat(h, self, haplotype) ==
    New(h, hap_alleles(h, self) \o hap_alleles(h, haplotype))

\* create from an iterable of alleles
hap_create(h, alleles) == New(h, alleles)

\* create from a haplotype
hap_create_from(h, haplotype) == hap_clone(h, haplotype)

\* the alleles a string given to create names: from_string of every token
\* between '+' that is not blank, stripped; [ok, alleles], ok FALSE when
\* from_string raises on one of them
RECURSIVE allele_objects(_)
allele_objects(tokens) ==
    IF Len(tokens) = 0 THEN [ok |-> TRUE, alleles |-> <<>>]
    ELSE LET token == Strip(tokens[1])
             parsed == from_string(token)
             rest == allele_objects(Tail(tokens))
         IN  IF Len(token) = 0 THEN rest
             ELSE IF ~parsed.ok \/ ~rest.ok THEN [ok |-> FALSE, alleles |-> <<>>]
             ELSE [ok |-> TRUE, alleles |-> <<parsed.val>> \o rest.alleles]

\* create from a string
hap_create_str(h, alleles) ==
    LET objects == allele_objects(Split(alleles, "+"))
    IN  IF ~objects.ok THEN [ok |-> FALSE, heap |-> h, ref |-> 0]
        ELSE New(h, objects.alleles)

\* the canonical strings of a sequence of alleles
AlleleStrings(alleles) == [k \in 1..Len(alleles) |-> allele_str(alleles[k])]

\* __str__ that lists the alleles last to first
hap_str_reversed(h, self) ==
    LET alleles == hap_alleles(h, self)
    IN  Join(AlleleStrings([k \in 1..Len(alleles) |-> alleles[Len(alleles) + 1 - k]]), "+")

\* __str__
hap_str(h, self) == Join(AlleleStrings(hap_alleles(h, self)), "+")

\* what the caller can still reach after a call that found n objects: those
\* n, then the returned objects that are new; refs are the returned references
Reachable(h, n, refs) ==
    LET fresh == SelectSeq(refs, LAMBDA r : r > n)
        firstAt(r) == SetMin({k \in 1..Len(fresh) : fresh[k] = r})
        kept == SelectSeq([k \in 1..Len(fresh) |-> IF firstAt(fresh[k]) = k THEN fresh[k] ELSE 0],
                          LAMBDA r : r > 0)
        place(r) == IF r <= n THEN r
                    ELSE n + SetMin({k \in 1..Len(kept) : kept[k] = r})
    IN  [heap |-> SubSeq(h, 1, n) \o [k \in 1..Len(kept) |-> h[kept[k]]],
         refs |-> [k \in 1..Len(refs) |-> place(refs[k])]]

(***************************************************************************)
(* Inputs of the haplotype operations.                                     *)
(***************************************************************************)
\* most alleles in an iterable given to create
MaxAlleles == 3
\* most loci in a list given to swap_all
MaxLoci == 2

\* the receiver and the haplotype argument: the most haplotypes a call takes,
\* and the most the caller holds between calls
Operands == 2

HapInputs ==
    { <<"A","*","0","1",":","0","1">>,
      <<"B","*","0","7",":","0","2">>,
      <<"D","R","B","3","*","0","1",":","0","1">>,
      <<"D","R","B","4","*","0","1",":","0","1">> }

HapAlleles == { from_string(s).val : s \in HapInputs }

AlleleSeqs == UNION { [1..k -> HapAlleles] : k \in 0..MaxAlleles }

\* locus arguments: registered values, and an alias _coerce_locus does not know
LocusInputs ==
    { <<"A">>, <<"B">>, <<"D","R","B","4">>, <<"D","R","B","3","4","5">>, <<"B","3">> }

SwapLoci == { <<"A">>, <<"D","R","B","4">> }

LociSeqs == UNION { [1..k -> SwapLoci] : k \in 0..MaxLoci }

\* strings given to create: aliases, lower case, blanks around and between
\* tokens, a marker without a locus, an unknown locus, no allele at all
StrInputs ==
    { <<"A","*","0","1",":","0","1","+","B","3","*","0","1",":","0","1","n">>,
      <<" ","n","e","g","a","t","i","v","o"," ","+","+","a","*","0","1",":","a","b"," ">>,
      <<"D","R","B","3","4","5","*","?","+","b","4","*","0","1">>,
      <<"C","*","0","4",":","0","1",":","0","1","N","+","D","Q","B","1","*","0","3">>,
      <<"A","*","0","1",":","0","1","+","X","*","0","1">>,
      <<" ","+"," ">> }

(***************************************************************************)
(* The haplotype operations as steps of a caller.  hcall records the last  *)
(* call: its arguments, the heap it found (before), and what it returned.  *)
(***************************************************************************)
NoHapCall ==
    [op |-> "none", self |-> 0, other |-> 0, locus |-> <<>>, exact |-> FALSE,
     allele |-> NoAllele, alleles |-> <<>>, loci |-> <<>>, before |-> <<>>,
     ok |-> TRUE, refs |-> <<>>, val |-> <<>>, bool |-> FALSE, text |-> <<>>]

\* a call that returned the references refs (none when it raised)
Returned(c, r, refs) ==
    LET live == Reachable(r.heap, Len(heap), IF r.ok THEN refs ELSE <<>>)
    IN  /\ heap' = live.heap
        /\ hcall' = [c EXCEPT !.before = heap, !.ok = r.ok, !.refs = live.refs]

HapCreate(alleles) ==
    /\ hcall.op = "none"
    /\ Len(heap) < Operands
    /\ LET r == hap_create(heap, alleles)
       IN  Returned([NoHapCall EXCEPT !.op = "create", !.alleles = alleles], r, <<r.ref>>)
    /\ UNCHANGED <<raw, recv, call, ret, held>>

HapCreateStr(alleles) ==
    /\ hcall.op = "none"
    /\ Len(heap) < Operands
    /\ LET r == hap_create_str(heap, alleles)
       IN  Returned([NoHapCall EXCEPT !.op = "create_str", !.text = alleles], r, <<r.ref>>)
    /\ UNCHANGED <<raw, recv, call, ret, held>>

HapStr(self) ==
    /\ hcall.op = "none"
    /\ self \in 1..Len(heap)
    /\ hcall' = [NoHapCall EXCEPT !.op = "str", !.self = self, !.before = heap,
                                  !.text = hap_str(heap, self)]
    /\ heap' = heap
    /\ UNCHANGED <<raw, recv, call, ret, held>>

HapCreateFrom(haplotype) ==
    /\ hcall.op = "none"
    /\ haplotype \in 1..Len(heap)
    /\ LET r == hap_create_from(heap, haplotype)
       IN  Returned([NoHapCall EXCEPT !.op = "create_from", !.other = haplotype], r, <<r.ref>>)
    /\ UNCHANGED <<raw, recv, call, ret, held>>

HapGet(self, locus, exact) ==
    /\ hcall.op = "none"
    /\ self \in 1..Len(heap)
    /\ LET r == hap_get(heap, self, locus, exact)
       IN  /\ hcall' = [NoHapCall EXCEPT !.op = "get", !.self = self, !.locus = locus,
                                         !.exact = exact, !.before = heap,
                                         !.ok = r.ok, !.val = r.val]
           /\ heap' = heap
    /\ UNCHANGED <<raw, recv, call, ret, held>>

HapHas(self, locus, exact) ==
    /\ hcall.op = "none"
    /\ self \in 1..Len(heap)
    /\ LET r == hap_has(heap, self, locus, exact)
       IN  /\ hcall' = [NoHapCall EXCEPT !.op = "has", !.self = self, !.locus = locus,
                                         !.exact = exact, !.before = heap,
                                         !.ok = r.ok, !.bool = r.val]
           /\ heap' = heap
    /\ UNCHANGED <<raw, recv, call, ret, held>>

HapSet(self, locus, allele) ==
    /\ hcall.op = "none"
    /\ self \in 1..Len(heap)
    /\ LET r == hap_set(heap, self, locus, allele)
       IN  Returned([NoHapCall EXCEPT !.op = "set", !.self = self, !.locus = locus,
                                      !.allele = allele], r, <<r.ref>>)
    /\ UNCHANGED <<raw, recv, call, ret, held>>

HapSwap(self, haplotype, locus) ==
    /\ hcall.op = "none"
    /\ self \in 1..Len(heap)
    /\ haplotype \in 1..Len(heap)
    /\ LET r == hap_swap(heap, self, haplotype, locus)
       IN  Returned([NoHapCall EXCEPT !.op = "swap", !.self = self, !.other = haplotype,
                                      !.locus = locus], r, <<r.first, r.second>>)
    /\ UNCHANGED <<raw, recv, call, ret, held>>

HapSwapAll(self, haplotype, loci) ==
    /\ hcall.op = "none"
    /\ self \in 1..Len(heap)
    /\ haplotype \in 1..Len(heap)
    /\ LET r == hap_swap_all(heap, self, haplotype, loci)
       IN  Returned([NoHapCall EXCEPT !.op = "swap_all", !.self = self,
                                      !.other = haplotype, !.loci = loci],
                    r, <<r.first, r.second>>)
    /\ UNCHANGED <<raw, recv, call, ret, held>>

HapClone(self) ==
    /\ hcall.op = "none"
    /\ self \in 1..Len(heap)
    /\ LET r == hap_clone(heap, self)
       IN  Returned([NoHapCall EXCEPT !.op = "clone", !.self = self], r, <<r.ref>>)
    /\ UNCHANGED <<raw, recv, call, ret, held>>

HapConcat(self, haplotype) ==
    /\ hcall.op = "none"
    /\ self \in 1..Len(heap)
    /\ haplotype \in 1..Len(heap)
    /\ LET r == hap_concat(heap, self, haplotype)
       IN  Returned([NoHapCall EXCEPT !.op = "concat", !.self = self, !.other = haplotype],
                    r, <<r.ref>>)
    /\ UNCHANGED <<raw, recv, call, ret, held>>

\* the call has returned: the caller keeps the haplotypes at the indices
\* keep, at most Operands of them, and lets go of the rest
Rebind(keep) ==
    /\ hcall.op # "none"
    /\ Cardinality(keep) <= Operands
    /\ LET kept == SelectSeq([k \in 1..Len(heap) |-> k], LAMBDA k : k \in keep)
       IN  heap' = [m \in 1..Len(kept) |-> heap[kept[m]]]
    /\ hcall' = NoHapCall
    /\ UNCHANGED <<raw, recv, call, ret, held>>

\* the allele operations alone: no haplotype exists
Init ==
    /\ raw \in RawInputs
    /\ recv = NoAllele
    /\ call = NoCall
    /\ ret = RetBool(FALSE)
    /\ held = NoAllele
    /\ heap = <<>>
    /\ hcall = NoHapCall

Next ==
    \/ FromString
    \/ IsValidAllele
    \/ Clone
    \/ \E value \in IntArgs : WithDisplayFieldCount(value)
    \/ WithoutSuffix
    \/ \E n_field \in IntArgs, keep_suffix \in BOOLEAN : AsResolution(n_field, keep_suffix)
    \/ \E other \in OtherInputs : Contains(other)
    \/ \E force_truncate \in BOOLEAN, keep_suffix \in BOOLEAN :
          Display(force_truncate, keep_suffix)

Spec == Init /\ [][Next]_vars

\* the haplotype operations alone: the caller holds no allele
HapInit ==
    /\ raw = <<>>
    /\ recv = NoAllele
    /\ call = NoCall
    /\ ret = RetBool(FALSE)
    /\ held = NoAllele
    /\ heap = <<>>
    /\ hcall = NoHapCall

HapNext ==
    \/ \E alleles \in AlleleSeqs : HapCreate(alleles)
    \/ \E haplotype \in 1..Len(heap) : HapCreateFrom(haplotype)
    \/ \E self \in 1..Len(heap), locus \in LocusInputs, exact \in BOOLEAN :
          HapGet(self, locus, exact)
    \/ \E self \in 1..Len(heap), locus \in LocusInputs, exact \in BOOLEAN :
          HapHas(self, locus, exact)
    \/ \E self \in 1..Len(heap), locus \in LocusInputs, allele \in HapAlleles :
          HapSet(self, locus, allele)
    \/ \E self \in 1..Len(heap), haplotype \in 1..Len(heap), locus \in LocusInputs :
          HapSwap(self, haplotype, locus)
    \/ \E self \in 1..Len(heap), haplotype \in 1..Len(heap), loci \in LociSeqs :
          HapSwapAll(self, haplotype, loci)
    \/ \E self \in 1..Len(heap) : HapClone(self)
    \/ \E self \in 1..Len(heap), haplotype \in 1..Len(heap) : HapConcat(self, haplotype)
    \/ \E keep \in SUBSET (1..Len(heap)) : Rebind(keep)

HapSpec == HapInit /\ [][HapNext]_vars

\* haplotypes written as strings: created from a string, combined, printed,
\* and created again from what was printed
StrNext ==
    \/ \E alleles \in StrInputs \cup { hap_str(heap, i) : i \in 1..Len(heap) } :
          HapCreateStr(alleles)
    \/ \E self \in 1..Len(heap) : HapStr(self)
    \/ \E self \in 1..Len(heap), haplotype \in 1..Len(heap) : HapConcat(self, haplotype)
    \/ \E keep \in SUBSET (1..Len(heap)) : Rebind(keep)

StrSpec == HapInit /\ [][StrNext]_vars

(***************************************************************************)
(* Properties of the allele operations.                                    *)
(***************************************************************************)
\* the receiver of the last call came from from_string(raw), possibly followed
\* by with_display_field_count(d) with d >= 1
RecvParsed ==
    /\ from_string(raw).ok
    /\ recv.display_field_count >= 1
    /\ recv = [from_string(raw).val EXCEPT !.display_field_count = recv.display_field_count]

\* the first n colon-delimited fields of a specificity
FirstFields(specificity, n) == Join(SubSeq(Split(specificity, ":"), 1, n), ":")

\* C1: for a parsed allele a and 1 <= n <= a.field_count, a.as_resolution(n)
\* returns an allele whose specificity is the first n fields of a.specificity,
\* with field_count n, mac_code recomputed from it and display_field_count
\* min(a.display_field_count, n)
C1_AsResolutionKeepsFirstNFields ==
    (/\ call.op = "as_resolution"
     /\ RecvParsed
     /\ 1 <= call.n
     /\ call.n <= recv.field_count)
    => /\ ret.ok
       /\ ret.val.specificity = FirstFields(recv.specificity, call.n)
       /\ ret.val.field_count = call.n
       /\ ret.val.mac_code = get_mac_code(FirstFields(recv.specificity, call.n))
       /\ ret.val.display_field_count =
            (IF recv.display_field_count < call.n THEN recv.display_field_count ELSE call.n)

\* a field of 2 or more digits followed by a single letter
IsDigits2Letter(f) ==
    Len(f) >= 3 /\ IsDigits2(SubSeq(f, 1, Len(f) - 1)) /\ IsAlphaChar(f[Len(f)])

\* the specificities the specification text admits: blank, an exception token,
\* or fields of 2+ digits whose last one may be 2+ letters or digits and a letter
StatedGrammar(S) ==
    \/ Strip(S) = <<>>
    \/ Upper(S) \in SPECIFICITY_EXCEPTIONS
    \/ LET parts == Split(S, ":")
       IN  /\ \A i \in 1..(Len(parts) - 1) : IsDigits2(parts[i])
           /\ \/ IsDigits2(parts[Len(parts)])
              \/ IsLetters2(parts[Len(parts)])
              \/ IsDigits2Letter(parts[Len(parts)])

\* the last call was from_string on an input 'L*S' with a registered locus L
ParsedLocusStar ==
    /\ call.op = "from_string"
    /\ ~(Upper(Strip(raw)) \in NEGATIVE_SPECIFICITIES \cup MISSING_SPECIFICITIES)
    /\ HasChar(raw, "*")
    /\ parse_locus(SplitFirst(raw, "*")[1]).ok

\* C2: for an input 'L*S' with a registered locus, from_string succeeds exactly
\* when S is blank, an exception token, or matches the stated field grammar, and
\* fails with an invalid-specificity error otherwise
C2_FromStringAcceptsStatedGrammar ==
    ParsedLocusStar
    => /\ ret.ok <=> StatedGrammar(SplitFirst(raw, "*")[2])
       /\ ~ret.ok => ret.err = "invalid_specificity"

\* C3: a bare negative or missing marker parses to locus DRB345, the upper-cased
\* marker as specificity, field_count 1, no MAC code and no suffix
C3_MarkerHasNoMacCode ==
    (/\ call.op = "from_string"
     /\ Upper(Strip(raw)) \in NEGATIVE_SPECIFICITIES \cup MISSING_SPECIFICITIES
     /\ ~HasChar(raw, "*"))
    => /\ ret.ok
       /\ ret.val.locus = "DRB345"
       /\ ret.val.specificity = Upper(Strip(raw))
       /\ ret.val.field_count = 1
       /\ ret.val.mac_code = <<>>
       /\ ~has_mac_code(ret.val)
       /\ ret.val.suffix = <<>>

\* C4: is_valid_allele(s) never raises and is true exactly when from_string(s)
\* returns an allele
C4_IsValidAlleleIffFromString ==
    call.op = "is_valid_allele"
    => /\ ret.ok
       /\ ret.bool <=> from_string(raw).ok

\* is_valid_allele has answered true for an input that carries a suffix
C4_Witness ==
    /\ call.op = "is_valid_allele"
    /\ ret.ok
    /\ ret.bool
    /\ from_string(raw).val.suffix # <<>>

\* C5: every allele reached by from_string, clone, with_display_field_count,
\* without_suffix and as_resolution has display_field_count >= 1
C5_DisplayFieldCountAtLeastOne ==
    held # NoAllele => held.display_field_count >= 1

\* C6: without_suffix on an allele with a suffix returns, without raising, an
\* allele with no suffix whose specificity is the receiver's without its
\* trailing suffix letter; on an allele without a suffix it returns an equal copy
C6_WithoutSuffixStripsSuffixLetter ==
    call.op = "without_suffix"
    => IF recv.suffix # <<>>
       THEN /\ ret.ok
            /\ ret.val.suffix = <<>>
            /\ Len(recv.specificity) >= 1
            /\ <<UpperChar(recv.specificity[Len(recv.specificity)])>> = recv.suffix[1]
            /\ ret.val.specificity = SubSeq(recv.specificity, 1, Len(recv.specificity) - 1)
       ELSE ret.ok /\ ret.val = recv

\* C7: x.contains(y) is true exactly when neither x nor y has a MAC code and the
\* canonical string of y is a literal prefix of the canonical string of x
C7_ContainsIffPrefixAndNoMac ==
    (call.op = "contains" /\ from_string(call.other).ok)
    => LET y == from_string(call.other).val
           xs == LocusValue(recv.locus) \o <<"*">> \o recv.specificity
           ys == LocusValue(y.locus) \o <<"*">> \o y.specificity
       IN  /\ ret.ok
           /\ ret.bool <=> (/\ recv.mac_code = <<>>
                            /\ y.mac_code = <<>>
                            /\ Len(ys) <= Len(xs)
                            /\ \A i \in 1..Len(ys) : xs[i] = ys[i])
           /\ (xs = <<"A","*","0","1",":","0","1">> /\ ys = <<"A","*","0","1">>)
                => ret.bool
           /\ (xs = <<"A","*","0","1">> /\ ys = <<"A","*","0","1",":","0","1">>)
                => ~ret.bool

\* contains has answered true for an argument that is a proper prefix
C7_Witness ==
    /\ call.op = "contains"
    /\ ret.ok
    /\ ret.bool
    /\ recv.field_count = 2
    /\ from_string(call.other).val.field_count = 1

(***************************************************************************)
(* Properties of the haplotype operations.                                 *)
(***************************************************************************)
\* the key a locus is filed under: the DRB3/4/5 family shares DRB345
FamilyKey(locus) ==
    IF locus \in {"DRB3", "DRB4", "DRB5", "DRB345"} THEN "DRB345" ELSE locus

\* the keys of a haplotype, in iteration order
KeysOf(m) == [k \in 1..Len(m) |-> m[k].key]

\* C8: every haplotype holds at most one allele per normalized locus, and every
\* stored allele sits under the normalized form of its own locus
C8_OneAllelePerNormalizedLocus ==
    \A i \in 1..Len(heap) :
        /\ \A k, m \in 1..Len(heap[i]) :
               k # m => FamilyKey(heap[i][k].val.locus) # FamilyKey(heap[i][m].val.locus)
        /\ \A k \in 1..Len(heap[i]) :
               heap[i][k].key = FamilyKey(heap[i][k].val.locus)

\* concat of a haplotype holding a DRB3 allele with one holding a DRB4 allele
\* has returned a haplotype with a single family entry
C8_Witness ==
    /\ hcall.op = "concat"
    /\ \E k \in 1..Len(hcall.before[hcall.self]) :
           hcall.before[hcall.self][k].val.locus = "DRB3"
    /\ \E k \in 1..Len(hcall.before[hcall.other]) :
           hcall.before[hcall.other][k].val.locus = "DRB4"
    /\ Cardinality({k \in 1..Len(heap[hcall.refs[1]]) :
                       heap[hcall.refs[1]][k].key = "DRB345"}) = 1
    /\ Len(heap[hcall.refs[1]]) = 3

\* C9: set, swap, swap_all and concat leave every haplotype that existed before
\* the call with the same alleles in the same order
C9_CallsLeaveOperandsUnchanged ==
    hcall.op \in {"set", "swap", "swap_all", "concat"}
    => /\ Len(heap) >= Len(hcall.before)
       /\ \A i \in 1..Len(hcall.before) : heap[i] = hcall.before[i]

\* set has returned a new haplotype that differs from its receiver
C9_Witness ==
    /\ hcall.op = "set"
    /\ hcall.ok
    /\ hcall.refs[1] > Len(hcall.before)
    /\ heap[hcall.refs[1]] # hcall.before[hcall.self]
    /\ heap[hcall.self] = hcall.before[hcall.self]

\* C10: h.set(L, a) with a registered L returns h itself when the normalized
\* keys of L and a.locus differ; otherwise a haplotype that holds a at L, holds
\* at every other key what h holds, and keeps the order of h's loci
C10_SetStoresOrReturnsReceiver ==
    (hcall.op = "set" /\ from_value(hcall.locus) # <<>>)
    => LET h == hcall.before[hcall.self]
           key == FamilyKey(from_value(hcall.locus)[1])
           a == hcall.allele
       IN  /\ hcall.ok
           /\ Len(hcall.refs) = 1
           /\ IF key # FamilyKey(a.locus)
              THEN /\ hcall.refs[1] = hcall.self
                   /\ heap[hcall.refs[1]] = h
              ELSE LET r == heap[hcall.refs[1]]
                   IN  /\ \E k \in 1..Len(r) : r[k].key = key /\ r[k].val = a
                       /\ hap_get(heap, hcall.refs[1], hcall.locus, FALSE).val = <<a>>
                       /\ \A k \in 1..Len(r) :
                              r[k].key # key => \E m \in 1..Len(h) : h[m] = r[k]
                       /\ \A m \in 1..Len(h) :
                              h[m].key # key => \E k \in 1..Len(r) : r[k] = h[m]
                       /\ SelectSeq(KeysOf(r),
                                    LAMBDA x : \E m \in 1..Len(h) : h[m].key = x)
                            = KeysOf(h)

\* set has replaced the first of three entries by another allele of the family
C10_Witness ==
    /\ hcall.op = "set"
    /\ hcall.ok
    /\ Len(hcall.before[hcall.self]) = 3
    /\ hcall.before[hcall.self][1].key = "DRB345"
    /\ hcall.before[hcall.self][1].val # hcall.allele
    /\ heap[hcall.refs[1]][1].val = hcall.allele

\* the entries of r are those of h, in the same order, except the value at key K
SameExceptAt(r, h, K) ==
    /\ Len(r) = Len(h)
    /\ \A i \in 1..Len(h) :
          /\ r[i].key = h[i].key
          /\ h[i].key # K => r[i].val = h[i].val

\* the last call was h1.swap(h2, L) with a registered locus L and has returned
SwapReturned == hcall.op = "swap" /\ hcall.ok

\* C11: h1.swap(h2, L) with a registered locus L returns two new objects; when
\* h1 or h2 has no allele at the normalized key of L they have the content of
\* h1 and h2, otherwise the first holds h2's allele at L, the second h1's, and
\* every other locus keeps its allele and its place
C11_SwapExchangesOneLocus ==
    SwapReturned =>
        LET h1 == hcall.before[hcall.self]
            h2 == hcall.before[hcall.other]
            r1 == heap[hcall.refs[1]]
            r2 == heap[hcall.refs[2]]
            K  == normalize_locus(coerce_locus(hcall.locus).locus)
            a1 == hap_get(hcall.before, hcall.self, hcall.locus, FALSE).val
            a2 == hap_get(hcall.before, hcall.other, hcall.locus, FALSE).val
        IN  /\ hcall.refs[1] > Len(hcall.before)
            /\ hcall.refs[2] > Len(hcall.before)
            /\ hcall.refs[1] # hcall.refs[2]
            /\ IF DictGet(h1, K) = <<>> \/ DictGet(h2, K) = <<>>
               THEN r1 = h1 /\ r2 = h2
               ELSE /\ hap_get(heap, hcall.refs[1], hcall.locus, FALSE).val = a2
                    /\ hap_get(heap, hcall.refs[2], hcall.locus, FALSE).val = a1
                    /\ SameExceptAt(r1, h1, K)
                    /\ SameExceptAt(r2, h2, K)

\* a swap of two different alleles of the DRB3/4/5 family between haplotypes
\* that also hold another locus
C11_Witness ==
    /\ SwapReturned
    /\ LET h1 == hcall.before[hcall.self]
           h2 == hcall.before[hcall.other]
           K  == normalize_locus(coerce_locus(hcall.locus).locus)
       IN  /\ DictGet(h1, K) # <<>>
           /\ DictGet(h2, K) # <<>>
           /\ DictGet(h1, K) # DictGet(h2, K)
           /\ Len(h1) > 1
           /\ heap[hcall.refs[1]] # h1

\* the alleles of the mapping m typed as a member of the DRB3/4/5 family
FamilyAlleles(m) == { m[i].val : i \in { j \in 1..Len(m) : is_drb345(m[j].val.locus) } }

\* the haplotype of the example, built from "A*01:01+DRB3*01:01"
ExampleHaplotype ==
    HlaHaplotype_init(<<from_string(<<"A","*","0","1",":","0","1">>).val,
                        from_string(<<"D","R","B","3","*","0","1",":","0","1">>).val>>)

\* C12: for a locus L of the DRB3/4/5 family, get(L) returns the one allele of
\* the family the haplotype holds, whatever member it was typed as; with
\* exact=True it returns that allele only when the allele's own locus is L and
\* None otherwise; has(L, exact) is True exactly when get(L, exact) is not None
C12_GetFamilyAndExact ==
    /\ (hcall.op = "get" /\ hcall.ok /\ is_drb345(coerce_locus(hcall.locus).locus)) =>
          LET L == coerce_locus(hcall.locus).locus
              stored == FamilyAlleles(hcall.before[hcall.self])
          IN  /\ Cardinality(stored) <= 1
              /\ stored = {} => hcall.val = <<>>
              /\ \A a \in stored :
                    hcall.val = IF hcall.exact /\ a.locus # L THEN <<>> ELSE <<a>>
    /\ (hcall.op = "get" /\ hcall.before[hcall.self] = ExampleHaplotype
           /\ hcall.locus = <<"D","R","B","4">>) =>
          /\ hcall.ok
          /\ hcall.val = IF hcall.exact THEN <<>> ELSE <<ExampleHaplotype[2].val>>
    /\ (hcall.op = "has" /\ hcall.ok) =>
          hcall.bool = (hap_get(hcall.before, hcall.self, hcall.locus, hcall.exact).val # <<>>)
    /\ (hcall.op = "has") =>
          hcall.ok = hap_get(hcall.before, hcall.self, hcall.locus, hcall.exact).ok

\* get("DRB4", exact=True) on the example haplotype returned None
C12_Witness ==
    /\ hcall.op = "get"
    /\ hcall.ok
    /\ hcall.exact
    /\ hcall.locus = <<"D","R","B","4">>
    /\ hcall.before[hcall.self] = ExampleHaplotype
    /\ hcall.val = <<>>

\* the normalized loci: what a key of a haplotype can be
NormalizedLoci == { FamilyKey(l) : l \in Loci }

\* the allele the mapping m holds for the normalized locus K, <<>> for none
AlleleAt(m, K) ==
    LET at == { i \in 1..Len(m) : FamilyKey(m[i].val.locus) = K }
    IN  IF at = {} THEN <<>> ELSE <<m[SetMax(at)].val>>

\* the last allele of the sequence whose normalized locus is K, <<>> for none
LastOf(alleles, K) ==
    LET at == { i \in 1..Len(alleles) : FamilyKey(alleles[i].locus) = K }
    IN  IF at = {} THEN <<>> ELSE <<alleles[SetMax(at)]>>

\* C13: h.concat(o) is a new haplotype holding, for every normalized locus K,
\* o's allele at K when o has one, else h's when h has one, and nothing else;
\* a haplotype constructed from a sequence holds, for every K, the last allele
\* of the sequence with that normalized locus
C13_ConcatLaterWins ==
    /\ hcall.op = "concat" =>
          LET h == hcall.before[hcall.self]
              o == hcall.before[hcall.other]
              r == heap[hcall.refs[1]]
          IN  /\ hcall.ok
              /\ hcall.refs[1] > Len(hcall.before)
              /\ \A K \in NormalizedLoci :
                    AlleleAt(r, K) = IF AlleleAt(o, K) # <<>> THEN AlleleAt(o, K)
                                     ELSE AlleleAt(h, K)
              /\ Len(r) = Cardinality({ K \in NormalizedLoci :
                                           AlleleAt(h, K) # <<>> \/ AlleleAt(o, K) # <<>> })
    /\ hcall.op = "create" =>
          LET r == heap[hcall.refs[1]]
          IN  /\ hcall.ok
              /\ \A K \in NormalizedLoci : AlleleAt(r, K) = LastOf(hcall.alleles, K)
              /\ Len(r) = Cardinality({ K \in NormalizedLoci :
                                           LastOf(hcall.alleles, K) # <<>> })

\* a concat in which both sides hold an allele of the DRB3/4/5 family, typed
\* differently, and the receiver holds a locus the argument lacks
C13_Witness ==
    /\ hcall.op = "concat"
    /\ LET h == hcall.before[hcall.self]
           o == hcall.before[hcall.other]
       IN  /\ AlleleAt(h, "DRB345") # <<>>
           /\ AlleleAt(o, "DRB345") # <<>>
           /\ AlleleAt(h, "DRB345") # AlleleAt(o, "DRB345")
           /\ \E K \in NormalizedLoci : AlleleAt(h, K) # <<>> /\ AlleleAt(o, K) = <<>>
           /\ AlleleAt(heap[hcall.refs[1]], "DRB345") = AlleleAt(o, "DRB345")

\* the haplotypes the last call found whose __str__ is the string it was given
Printed == { i \in 1..Len(hcall.before) : hap_str(hcall.before, i) = hcall.text }

\* C14: create(str(h)) returns a haplotype with as many entries as h, holding
\* alleles equal to those of h in the same order, and printing as h does
C14_CreateOfStrRoundTrip ==
    hcall.op = "create_str" =>
        \A i \in Printed :
            /\ hcall.ok
            /\ Len(heap[hcall.refs[1]]) = Len(hcall.before[i])
            /\ hap_alleles(heap, hcall.refs[1]) = hap_alleles(hcall.before, i)
            /\ hap_str(heap, hcall.refs[1]) = hcall.text

\* create was given the string of a haplotype of two alleles, one typed under
\* an alias or as a bare marker, the other with a lower-case letter
C14_Witness ==
    /\ hcall.op = "create_str"
    /\ hcall.ok
    /\ \E i \in Printed :
          /\ Len(hcall.before[i]) = 2
          /\ \E k \in 1..2 : is_drb345(hcall.before[i][k].val.locus)
          /\ \E k \in 1..2 : hcall.before[i][k].val.specificity # Upper(hcall.before[i][k].val.specificity)
          /\ hcall.text \notin StrInputs

(***************************************************************************)
(* Properties of alleles derived from a parsed one.                        *)
(***************************************************************************)
\* C15: every allele reached from from_string by clone,
\* with_display_field_count, without_suffix and as_resolution has field_count
\* equal to the number of ':' in its specificity plus one, mac_code equal to
\* get_mac_code(specificity) and suffix equal to get_suffix(specificity)
C15_DerivedAttributesConsistent ==
    held # NoAllele =>
        /\ held.field_count = CountChar(held.specificity, ":") + 1
        /\ held.mac_code = get_mac_code(held.specificity)
        /\ held.suffix = get_suffix(held.specificity)

\* C16: display(force_truncate, keep_suffix) on an allele returned by
\* from_string returns a string, and is_valid_allele accepts that string
C16_DisplayReturnsValidAllele ==
    (call.op = "display" /\ from_string(raw).ok /\ recv = from_string(raw).val) =>
        /\ ret.ok
        /\ is_valid_allele(ret.text).bool

====
